---- MODULE Spec2Model ----
(***************************************************************************)
(* EventService.mergeAllOverlappingEvents (src/src/event/event.service.ts) *)
(* over an event store with a many-to-many invitee relation.               *)
(*                                                                         *)
(* The store maps event ids to rows.  An invocation of the merge runs in   *)
(* three awaited steps: the query (followed synchronously by the sweep),   *)
(* the bulk save, and the delete of the absorbed originals.  Several       *)
(* invocations may be in flight at once and interleave at the awaits.      *)
(***************************************************************************)
EXTENDS Integers, Sequences, FiniteSets, TLC

\* ---------------------------------------------------------------- bounds
NumEvents == 3
MaxTime == 2
NumUsers == 2
NumInv == 2

EventIds == 1..NumEvents
Times == 0..MaxTime
Users == 1..NumUsers
Invocations == 1..NumInv

VARIABLES
    store,          \* event table joined with the invitee relation: id -> row
    pc,             \* per invocation: "idle", "save", "delete", "done", "failed"
    user,           \* per invocation: the userId argument (0 before the call)
    events,         \* per invocation: the array returned by getMany (entities are mutated in place)
    mergedEvents,   \* per invocation: the mergedEvents array
    calls,          \* per invocation: the repository calls issued so far
    fetched,        \* history: the array as getMany returned it, before any in-place mutation
    storeAt,        \* history: the store as it was when the invocation's query ran
    before,         \* history: the invocations that had already ended when the query ran
    sharedObjects   \* whether hydration reuses one object per user row or builds one per event

vars == <<store, pc, user, events, mergedEvents, calls, fetched, storeAt, before, sharedObjects>>

\* ---------------------------------------------------------------- helpers
Min(a, b) == IF a <= b THEN a ELSE b
Max(a, b) == IF a >= b THEN a ELSE b
Range(s) == {s[k] : k \in 1..Len(s)}
Ids(s) == {s[k].id : k \in 1..Len(s)}

\* `${x || ''}`: an absent description reads as the empty string
OrEmpty(d) == IF d = <<>> THEN "" ELSE d[1]

\* new Set([...]) keeps the first occurrence of every object; objects are
\* compared by reference, modelled by the pair (uid, ref)
RECURSIVE SetOfObjects(_)
SetOfObjects(s) ==
    IF s = <<>> THEN <<>>
    ELSE LET r == SetOfObjects(SubSeq(s, 1, Len(s) - 1))
             x == s[Len(s)]
         IN IF x \in Range(r) THEN r ELSE Append(r, x)

\* ---------------------------------------------------------------- the query
\* Variant: the query without its WHERE clause returns every event
FetchIdsUnfiltered(st, u) == DOMAIN st

\* WHERE user.id = :userId keeps the events that have the user as an invitee
FetchIds(st, u) == {i \in DOMAIN st : u \in st[i].invitees}

\* ORDER BY event.startTime ASC: every arrangement that is ascending by
\* startTime; the order among equal start times is not determined
Orders(st, S) ==
    {o \in [1..Cardinality(S) -> S] :
        /\ \A a, b \in 1..Cardinality(S) : a # b => o[a] # o[b]
        /\ \A a, b \in 1..Cardinality(S) : a < b => st[o[a]].startTime <= st[o[b]].startTime}

\* The WHERE clause filters the joined invitee rows as well, so an entity is
\* hydrated with the invitee row of the queried user only.  The user object
\* is either hydrated once per event (ref = event id) or shared (ref = 0).
LoadedInvitees(i, u, shared) == <<[uid |-> u, ref |-> IF shared THEN 0 ELSE i]>>

Entity(st, i, u, shared) ==
    [id |-> i,
     title |-> st[i].title,
     description |-> st[i].description,
     startTime |-> st[i].startTime,
     endTime |-> st[i].endTime,
     status |-> st[i].status,
     invitees |-> LoadedInvitees(i, u, shared)]

GetMany(st, u, o, shared) == [k \in 1..Len(o) |-> Entity(st, o[k], u, shared)]

\* ---------------------------------------------------------------- the sweep
isOverlapping(event1, event2) ==
    event1.endTime > event2.startTime /\ event1.startTime < event2.endTime

mergeEvents(event1, event2) ==
    [id |-> event1.id,
     startTime |-> Min(event1.startTime, event2.startTime),
     endTime |-> Max(event1.endTime, event2.endTime),
     title |-> event1.title \o ", " \o event2.title,
     description |-> <<OrEmpty(event1.description) \o " " \o OrEmpty(event2.description)>>,
     status |-> "IN_PROGRESS",
     invitees |-> SetOfObjects(event1.invitees \o event2.invitees)]

\* The for loop of mergeAllOverlappingEvents from index k on; cur is the
\* accumulator currentMergedEvent as a sequence of length 0 (null) or 1.
RECURSIVE SweepFrom(_, _, _, _)
SweepFrom(evs, k, merged, cur) ==
    IF k > Len(evs)
    THEN IF cur # <<>> THEN Append(merged, cur[1]) ELSE merged
    ELSE IF cur # <<>> /\ isOverlapping(cur[1], evs[k])
         THEN SweepFrom(evs, k + 1, merged, <<mergeEvents(cur[1], evs[k])>>)
         ELSE SweepFrom(evs, k + 1,
                        IF cur # <<>> THEN Append(merged, cur[1]) ELSE merged,
                        <<evs[k]>>)

Sweep(evs) == SweepFrom(evs, 1, <<>>, <<>>)

\* mergeEvents writes into event1, which is also an element of the events
\* array: after the loop the array holds the accumulators in their final state
Mutated(evs, merged) ==
    [k \in 1..Len(evs) |->
        IF \E j \in 1..Len(merged) : merged[j].id = evs[k].id
        THEN (CHOOSE m \in Range(merged) : m.id = evs[k].id)
        ELSE evs[k]]

\* ---------------------------------------------------------------- store writes
Row(e) ==
    [title |-> e.title,
     description |-> e.description,
     startTime |-> e.startTime,
     endTime |-> e.endTime,
     status |-> e.status,
     invitees |-> {e.invitees[k].uid : k \in 1..Len(e.invitees)}]

\* eventRepository.save(mergedEvents): every entity is written under its id
SaveAll(st, merged) ==
    [i \in DOMAIN st \cup Ids(merged) |->
        IF i \in Ids(merged)
        THEN Row(CHOOSE m \in Range(merged) : m.id = i)
        ELSE st[i]]

\* removeOriginalEvents: the fetched ids that are not ids of merged events
EventsToDelete(originalEvents, merged) == Ids(originalEvents) \ Ids(merged)

\* eventRepository.delete(ids): absent ids are ignored
DeleteByIds(st, ids) == [i \in DOMAIN st \ ids |-> st[i]]

\* ---------------------------------------------------------------- initial state
InitDescription(i) == IF i % 2 = 1 THEN <<"D" \o ToString(i)>> ELSE <<>>

InitRow(i, s, e, inv) ==
    [title |-> "T" \o ToString(i),
     description |-> InitDescription(i),
     startTime |-> s,
     endTime |-> e,
     status |-> "TODO",
     invitees |-> inv]

\* The code compares event ids for equality only, so stores that differ by a
\* renaming of the ids behave alike: ids are numbered in (startTime, endTime) order
InitStores ==
    {st \in [EventIds -> [startTime : Times, endTime : Times, invitees : SUBSET Users \ {{}}]] :
        /\ \A i \in EventIds : st[i].startTime <= st[i].endTime
        /\ \A i, j \in EventIds :
              i < j => \/ st[i].startTime < st[j].startTime
                       \/ st[i].startTime = st[j].startTime /\ st[i].endTime <= st[j].endTime}

Init ==
    /\ \E st \in InitStores :
        store = [i \in EventIds |-> InitRow(i, st[i].startTime, st[i].endTime, st[i].invitees)]
    /\ pc = [p \in Invocations |-> "idle"]
    /\ user = [p \in Invocations |-> 0]
    /\ events = [p \in Invocations |-> <<>>]
    /\ mergedEvents = [p \in Invocations |-> <<>>]
    /\ calls = [p \in Invocations |-> <<>>]
    /\ fetched = [p \in Invocations |-> <<>>]
    /\ storeAt = [p \in Invocations |-> <<>>]
    /\ before = [p \in Invocations |-> {}]
    /\ sharedObjects \in BOOLEAN

\* ---------------------------------------------------------------- actions
Ended(p) == pc[p] \in {"done", "failed"}
InFlight(p) == pc[p] \in {"save", "delete"}

\* Variant: a per-user lock taken before the query and held to the end
MayStartLocked(p, u) ==
    pc[p] = "idle" /\ \A q \in Invocations : pc[q] \in {"save", "delete"} => user[q] # u

\* Nothing in mergeAllOverlappingEvents keeps a call from starting
MayStart(p, u) == pc[p] = "idle"

\* Invocations are numbered in the order of their calls; the query of a
\* started call always resolves with some arrangement of the rows
CanFetch(p, u) ==
    /\ MayStart(p, u)
    /\ \A q \in Invocations : q < p => pc[q] # "idle"
    /\ Orders(store, FetchIds(store, u)) # {}

\* The query resolves and the sweep runs to the first write
Fetch(p, u) ==
    /\ CanFetch(p, u)
    /\ \E o \in Orders(store, FetchIds(store, u)) :
        LET evs == GetMany(store, u, o, sharedObjects)
            merged == Sweep(evs)
        IN /\ fetched' = [fetched EXCEPT ![p] = evs]
           /\ mergedEvents' = [mergedEvents EXCEPT ![p] = merged]
           /\ events' = [events EXCEPT ![p] = Mutated(evs, merged)]
    /\ user' = [user EXCEPT ![p] = u]
    /\ storeAt' = [storeAt EXCEPT ![p] = store]
    /\ before' = [before EXCEPT ![p] = {q \in Invocations : Ended(q)}]
    /\ calls' = [calls EXCEPT ![p] = <<"getMany">>]
    /\ pc' = [pc EXCEPT ![p] = "save"]
    /\ UNCHANGED <<store, sharedObjects>>

Save(p) ==
    /\ pc[p] = "save"
    /\ store' = SaveAll(store, mergedEvents[p])
    /\ calls' = [calls EXCEPT ![p] = Append(@, "save")]
    /\ pc' = [pc EXCEPT ![p] = "delete"]
    /\ UNCHANGED <<user, events, mergedEvents, fetched, storeAt, before, sharedObjects>>

Delete(p) ==
    /\ pc[p] = "delete"
    /\ store' = DeleteByIds(store, EventsToDelete(events[p], mergedEvents[p]))
    /\ calls' = [calls EXCEPT ![p] = Append(@, "delete")]
    /\ pc' = [pc EXCEPT ![p] = "done"]
    /\ UNCHANGED <<user, events, mergedEvents, fetched, storeAt, before, sharedObjects>>

\* The delete call rejects: the error propagates, nothing is rolled back
DeleteFail(p) ==
    /\ pc[p] = "delete"
    /\ calls' = [calls EXCEPT ![p] = Append(@, "delete")]
    /\ pc' = [pc EXCEPT ![p] = "failed"]
    /\ UNCHANGED <<store, user, events, mergedEvents, fetched, storeAt, before, sharedObjects>>

Next ==
    \E p \in Invocations :
        \/ \E u \in Users : Fetch(p, u)
        \/ Save(p)
        \/ Delete(p)
        \/ DeleteFail(p)

Spec == Init /\ [][Next]_vars

\* Per-user serialization by the caller: a merge for user u starts only while
\* no other merge for u is in flight
PerUserSerialized(p, u) == \A q \in Invocations : InFlight(q) => user[q] # u

SerialFetch(p, u) == PerUserSerialized(p, u) /\ Fetch(p, u)

NextSerial ==
    \E p \in Invocations :
        \/ \E u \in Users : SerialFetch(p, u)
        \/ Save(p)
        \/ Delete(p)
        \/ DeleteFail(p)

SpecSerial == Init /\ [][NextSerial]_vars

\* ---------------------------------------------------------------- one whole merge
\* fetch, sweep, save and delete of one invocation run without interruption
CompleteMerge(st, u, o) ==
    LET evs == GetMany(st, u, o, FALSE)
        merged == Sweep(evs)
    IN DeleteByIds(SaveAll(st, merged), EventsToDelete(Mutated(evs, merged), merged))

Outcomes(st, u) == {CompleteMerge(st, u, o) : o \in Orders(st, FetchIds(st, u))}

\* ---------------------------------------------------------------- clusters
\* The overlap relation as the claims state it
ClaimOverlap(a, b) == a.endTime > b.startTime /\ a.startTime < b.endTime

\* Connected component of the overlap graph on the positions of F
RECURSIVE Connected(_, _)
Connected(F, S) ==
    LET T == S \cup {j \in 1..Len(F) : \E i \in S : i # j /\ ClaimOverlap(F[i], F[j])}
    IN IF T = S THEN S ELSE Connected(F, T)

ClusterOf(F, k) == Connected(F, {k})
Clusters(F) == {ClusterOf(F, k) : k \in 1..Len(F)}
IndexOf(F, id) == CHOOSE k \in 1..Len(F) : F[k].id = id
FirstOf(K) == CHOOSE k \in K : \A j \in K : k <= j
LeastOf(S) == CHOOSE x \in S : \A y \in S : x <= y
GreatestOf(S) == CHOOSE x \in S : \A y \in S : x >= y

RECURSIVE RestTitles(_, _, _)
RestTitles(F, K, k) ==
    IF k > Len(F) THEN ""
    ELSE (IF k \in K THEN ", " \o F[k].title ELSE "") \o RestTitles(F, K, k + 1)

JoinedTitles(F, K) == F[FirstOf(K)].title \o RestTitles(F, K \ {FirstOf(K)}, 1)

Uids(e) == {e.invitees[k].uid : k \in 1..Len(e.invitees)}

\* p has returned and no other invocation wrote to the store while p ran or since
RanAlone(p) ==
    /\ pc[p] = "done"
    /\ \A q \in Invocations \ {p} : q \in before[p] \/ pc[q] \in {"idle", "save"}

\* q ran directly after p ended, for the same user, and nothing else ran
DirectlyAfter(p, q) ==
    /\ p # q
    /\ p \in before[q]
    /\ user[p] = user[q]
    /\ before[p] = {}

\* ---------------------------------------------------------------- claims

\* C1: a returned merge has exactly as many events as the fetched set has
\* overlap-connected clusters.
C1_OnePerCluster ==
    \A p \in Invocations :
        pc[p] = "done" => Len(mergedEvents[p]) = Cardinality(Clusters(fetched[p]))

\* C2: no two distinct events of a returned merge overlap.
C2_NoOverlapInResult ==
    \A p \in Invocations :
        pc[p] = "done" =>
            \A a, b \in 1..Len(mergedEvents[p]) :
                a # b => ~ClaimOverlap(mergedEvents[p][a], mergedEvents[p][b])

\* C3: a returned event whose cluster has two or more fetched events spans the
\* cluster (minimum start, maximum end), carries the cluster's titles joined
\* with ", " in fetch order, has status IN_PROGRESS and the id of the
\* cluster's first-fetched event.
C3_MergedFields ==
    \A p \in Invocations :
        pc[p] = "done" =>
            \A j \in 1..Len(mergedEvents[p]) :
                LET F == fetched[p]
                    m == mergedEvents[p][j]
                    K == ClusterOf(F, IndexOf(F, m.id))
                IN Cardinality(K) >= 2 =>
                    /\ m.startTime = LeastOf({F[k].startTime : k \in K})
                    /\ m.endTime = GreatestOf({F[k].endTime : k \in K})
                    /\ m.title = JoinedTitles(F, K)
                    /\ m.status = "IN_PROGRESS"
                    /\ m.id = F[FirstOf(K)].id

\* C4: after a complete merge the store holds, of every cluster of two or more
\* events, the first-fetched id and no other id of the cluster; every fetched
\* singleton with its columns unchanged; every event the user is not invited
\* to, unchanged; and no id that was not there before.
Columns(r) == <<r.title, r.description, r.startTime, r.endTime, r.status>>

C4_StoreAfterMerge ==
    \A p \in Invocations :
        RanAlone(p) =>
            LET F == fetched[p]
                st == storeAt[p]
            IN /\ \A k \in 1..Len(F) :
                    LET K == ClusterOf(F, k)
                    IN IF Cardinality(K) > 1
                       THEN F[k].id \in DOMAIN store <=> k = FirstOf(K)
                       ELSE /\ F[k].id \in DOMAIN store
                            /\ Columns(store[F[k].id]) = Columns(st[F[k].id])
               /\ \A i \in DOMAIN st \ Ids(F) : i \in DOMAIN store /\ store[i] = st[i]
               /\ DOMAIN store \subseteq DOMAIN st

\* C5: the invitees of a returned event are the union of the invitees the
\* store holds for the events of its cluster, each user once.
C5_InviteeUnion ==
    \A p \in Invocations :
        pc[p] = "done" =>
            \A j \in 1..Len(mergedEvents[p]) :
                LET F == fetched[p]
                    m == mergedEvents[p][j]
                    K == ClusterOf(F, IndexOf(F, m.id))
                IN /\ Uids(m) = UNION {storeAt[p][F[k].id].invitees : k \in K}
                   /\ \A a, b \in 1..Len(m.invitees) :
                        a # b => m.invitees[a].uid # m.invitees[b].uid

\* C6: a merge for a user who is invited to no event returns the empty
\* sequence and issues neither a save nor a delete call.
C6_NoCallsWhenEmpty ==
    \A p \in Invocations :
        pc[p] = "done" /\ FetchIds(storeAt[p], user[p]) = {} =>
            /\ mergedEvents[p] = <<>>
            /\ "save" \notin Range(calls[p])
            /\ "delete" \notin Range(calls[p])

\* C7: when the delete of a merge fails after its save, the store holds the
\* merged events and the stale originals, and a complete re-run for the same
\* user leaves the ids, start times, end times and titles that one
\* uninterrupted merge of the original store leaves.
Core(st) == [i \in DOMAIN st |-> <<st[i].startTime, st[i].endTime, st[i].title>>]

C7_RerunAfterFailedDelete ==
    \A p, q \in Invocations :
        /\ (pc[p] = "failed" /\ pc[q] = "idle" /\ before[p] = {}
                => store = SaveAll(storeAt[p], mergedEvents[p]))
        /\ (pc[p] = "failed" /\ pc[q] = "done" /\ DirectlyAfter(p, q)
                => \E out \in Outcomes(storeAt[p], user[p]) : Core(store) = Core(out))

\* C8 (as stated): under per-user serialization no event is in the fetched
\* set of two in-flight invocations at the same time.
C8_DisjointFetchedSets ==
    \A p, q \in Invocations :
        p # q /\ InFlight(p) /\ InFlight(q) => Ids(fetched[p]) \cap Ids(fetched[q]) = {}

\* C8 (amended): under per-user serialization an event is in the fetched sets
\* of two in-flight invocations only when the invocations are for two
\* different users who both were invitees of the event when it was fetched.
C8_SharedOnlyAmongInvitees ==
    \A p, q \in Invocations :
        p # q /\ InFlight(p) /\ InFlight(q) =>
            \A i \in Ids(fetched[p]) \cap Ids(fetched[q]) :
                /\ user[p] # user[q]
                /\ user[p] \in storeAt[p][i].invitees
                /\ user[q] \in storeAt[q][i].invitees

C8_Witness ==
    \E p, q \in Invocations :
        /\ p # q /\ InFlight(p) /\ InFlight(q)
        /\ user[p] # user[q]
        /\ Ids(fetched[p]) \cap Ids(fetched[q]) # {}
        /\ \E i \in Ids(fetched[p]) : i \notin Ids(fetched[q])

\* C9: the merge enforces no mutual exclusion: while one invocation is in
\* flight, a second one for the same user can always start; interleaved, the
\* two can leave a store that no sequential run of the two leaves.
C9_NoMutualExclusion ==
    \A p, q \in Invocations :
        (InFlight(p) /\ pc[q] = "idle" /\ \A r \in Invocations : r < q => pc[r] # "idle")
            => CanFetch(q, user[p])

SerialOutcomes(st, u) == UNION {Outcomes(mid, u) : mid \in Outcomes(st, u)}

C9_Witness ==
    \E p, q \in Invocations :
        /\ p # q /\ pc[p] = "done" /\ pc[q] = "done"
        /\ user[p] = user[q]
        /\ before[p] = {} /\ before[q] = {}
        /\ store \notin SerialOutcomes(storeAt[p], user[p])

\* C10: a second merge for the same user directly after a complete first one
\* returns the same events and leaves the store unchanged.
Returned(e) == <<e.id, e.title, e.description, e.startTime, e.endTime, e.status, Uids(e)>>

C10_Idempotent ==
    \A p, q \in Invocations :
        pc[p] = "done" /\ pc[q] = "done" /\ DirectlyAfter(p, q) =>
            /\ {Returned(m) : m \in Range(mergedEvents[q])} = {Returned(m) : m \in Range(mergedEvents[p])}
            /\ store = storeAt[q]

====
